---------------------------- MODULE Spec2Model ----------------------------
(***************************************************************************)
(* Model of the DOM-mounting helpers of solid-js/web (web/src/index.ts):   *)
(* hydrateDocument and Portal.                                             *)
(*                                                                         *)
(* JavaScript values are records [t, b, n, s]: t is the typeof-like tag,   *)
(* b the boolean, n the number, s the string (or the identity of an        *)
(* object / function).  The root element is a record of its attribute map  *)
(* and its className property.  Attribute names are drawn from valid,      *)
(* lower-case names, so setAttribute neither throws nor folds case.        *)
(***************************************************************************)
EXTENDS Integers, Sequences, FiniteSets, TLC

VARIABLES
    documentElement,   \* document.documentElement: [attrs, className]
    fn,                \* what the producer fn() returns
    options,           \* the options argument of the pending / last call
    pre,               \* documentElement as it was before the last call
    domLog,            \* DOM writes of the last call, in order
    coreCall,          \* arguments the last call handed to hydrateCore
    hydrationEnabled,  \* enableHydration() has been called
    returned,          \* what the last hydrateDocument call returned
    threw,             \* the last call threw
    root,              \* the reactive root created by hydrateCore
    disposals,         \* invocations of the disposer the last call returned
    trace,             \* the steps of the last call, each with the hydration
                       \* mode it ran under
    pProps,            \* Portal: the props object (reactive)
    pEnv,              \* Portal: whether elements offer attachShadow
    portal,            \* Portal: "none", "created" or "disposed"
    effect,            \* Portal: the mount effect and its cleanups
    containers,        \* Portal: the container elements created so far
    childNodes,        \* DOM: the containers appended to each target
    headRoots,         \* Portal: the nested roots inserted into the head
    pThrew,            \* Portal: the DOM calls of the Portal that threw
    markerParent,      \* Portal: marker.parentNode, "null" while detached
    pLog,              \* Portal: DOM calls of the last effect run / teardown
    dProps,            \* Dynamic: the props object (reactive), key -> value
    dContext,          \* Dynamic: sharedConfig.context is set (hydrating)
    dCreated,          \* Dynamic: Dynamic(props) has been called
    dCached,           \* Dynamic: the value of the memo of the selector
    dEvals,            \* Dynamic: evaluations of the selector so far
    dSignal,           \* Dynamic: a signal that the components read
    dHistory           \* Dynamic: the runs of the rendering memo, in order

hdVars == <<documentElement, fn, options, pre, domLog, coreCall,
            hydrationEnabled, returned, threw, root, disposals, trace>>

portalVars == <<pProps, pEnv, portal, effect, containers, childNodes,
                headRoots, pThrew, markerParent, pLog>>

dynVars == <<dProps, dContext, dCreated, dCached, dEvals, dSignal, dHistory>>

vars == <<hdVars, portalVars, dynVars>>

-----------------------------------------------------------------------------
(* Bounds *)

MaxProps == 2        \* keys of the props object of the producer's result
MaxDisposals == 2    \* disposer invocations in one behaviour
MaxRuns == 3         \* runs of the Portal's mount effect in one behaviour
MaxEvals == 3        \* evaluations of Dynamic's selector in one behaviour

-----------------------------------------------------------------------------
(* JavaScript values *)

JSNull == [t |-> "null", b |-> FALSE, n |-> 0, s |-> ""]
JSUndefined == [t |-> "undefined", b |-> FALSE, n |-> 0, s |-> ""]
JSBool(x) == [t |-> "boolean", b |-> x, n |-> 0, s |-> ""]
JSNum(x) == [t |-> "number", b |-> FALSE, n |-> x, s |-> ""]
JSStr(x) == [t |-> "string", b |-> FALSE, n |-> 0, s |-> x]
JSObj(id) == [t |-> "object", b |-> FALSE, n |-> 0, s |-> id]
JSFunc(id) == [t |-> "function", b |-> FALSE, n |-> 0, s |-> id]

\* ToBoolean: the test made by `if (x)` and `x && ...`
Truthy(v) ==
    CASE v.t = "null" -> FALSE
      [] v.t = "undefined" -> FALSE
      [] v.t = "boolean" -> v.b
      [] v.t = "number" -> v.n # 0
      [] v.t = "string" -> v.s # ""
      [] OTHER -> TRUE

\* `typeof v`: null is an "object"
TypeOf(v) == IF v.t = "null" THEN "object" ELSE v.t

Digit(d) ==
    CASE d = 0 -> "0" [] d = 1 -> "1" [] d = 2 -> "2" [] d = 3 -> "3"
      [] d = 4 -> "4" [] d = 5 -> "5" [] d = 6 -> "6" [] d = 7 -> "7"
      [] d = 8 -> "8" [] d = 9 -> "9"

RECURSIVE NatToString(_)
NatToString(k) ==
    IF k < 10 THEN Digit(k) ELSE NatToString(k \div 10) \o Digit(k % 10)

\* String(v), the coercion of line 135 (and of the className setter)
String(v) ==
    CASE v.t = "null" -> "null"
      [] v.t = "undefined" -> "undefined"
      [] v.t = "boolean" -> IF v.b THEN "true" ELSE "false"
      [] v.t = "number" -> IF v.n < 0 THEN "-" \o NatToString(-v.n)
                                      ELSE NatToString(v.n)
      [] v.t = "string" -> v.s
      [] v.t = "function" -> "function " \o v.s \o "() {}"
      [] OTHER -> "[object Object]"


-----------------------------------------------------------------------------
(* The producer's result: a value, and for an object its `type` and        *)
(* `props` fields.  props.v is the value of the field (undefined when the  *)
(* field is missing); props.entries are the own keys of a props object in  *)
(* Object.keys order, each with its value.                                 *)

NoProps(v) == [v |-> v, entries |-> <<>>]
PropsObject(entries) == [v |-> JSObj("props"), entries |-> entries]

Primitive(v) == [val |-> v, hasType |-> FALSE, type |-> JSUndefined,
                 props |-> NoProps(JSUndefined)]
Node(type, props) == [val |-> JSObj("node"), hasType |-> TRUE,
                      type |-> JSStr(type), props |-> props]
Untyped(props) == [val |-> JSObj("node"), hasType |-> FALSE,
                   type |-> JSUndefined, props |-> props]

\* props[key]: undefined when the key is absent
PropsGet(props, key) ==
    IF \E i \in DOMAIN props.entries : props.entries[i].key = key
    THEN LET i == CHOOSE j \in DOMAIN props.entries : props.entries[j].key = key
         IN props.entries[i].value
    ELSE JSUndefined

-----------------------------------------------------------------------------
(* The root element and the three DOM writes the wrapper makes on it.      *)

Element(attrs, className) == [attrs |-> attrs, className |-> className]

hasAttribute(el, name) == name \in DOMAIN el.attrs

setAttribute(el, name, value) ==
    [el EXCEPT !.attrs = [k \in (DOMAIN el.attrs) \cup {name} |->
                             IF k = name THEN value ELSE el.attrs[k]]]

removeAttribute(el, name) ==
    [el EXCEPT !.attrs = [k \in (DOMAIN el.attrs) \ {name} |-> el.attrs[k]]]

\* `el.className = value`: the setter coerces to a string
setClassName(el, value) == [el EXCEPT !.className = String(value)]

Write(op, name, value, key) ==
    [op |-> op, name |-> name, value |-> value, key |-> key]

-----------------------------------------------------------------------------
(* hydrateDocument, lines 104-155 *)

\* line 122: the keys that are never reflected
SkippedKey_None(key) == FALSE
SkippedKey(key) == key = "children" \/ key = "ref"

\* line 124, `value != null` negated: null and undefined
IsNullish_OnlyNull(value) == value.t = "null"
IsNullish(value) == value.t = "null" \/ value.t = "undefined"

\* line 126: the keys that set the className property
IsClassKey_OnlyClassName(key) == key = "className"
IsClassKey(key) == key = "className" \/ key = "class"

\* line 128: `typeof value === 'boolean'`
IsBoolean_Never(value) == FALSE
IsBoolean(value) == TypeOf(value) = "boolean"

\* line 135: the attribute value written for a non-boolean value
AttrString_Raw(value) == value.s
AttrString(value) == String(value)

\* body of the forEach callback, lines 121-139; st = [el, log]
ApplyKey(st, key, value) ==
    IF ~SkippedKey(key)
    THEN IF ~IsNullish(value)
         THEN IF IsClassKey(key)
              THEN [el |-> setClassName(st.el, value),
                    log |-> Append(st.log,
                              Write("className", "className", String(value), key))]
              ELSE IF IsBoolean(value)
                   THEN IF value.b
                        THEN [el |-> setAttribute(st.el, key, ""),
                              log |-> Append(st.log,
                                        Write("setAttribute", key, "", key))]
                        ELSE [el |-> removeAttribute(st.el, key),
                              log |-> Append(st.log,
                                        Write("removeAttribute", key, "", key))]
                   ELSE [el |-> setAttribute(st.el, key, AttrString(value)),
                         log |-> Append(st.log,
                                   Write("setAttribute", key, AttrString(value), key))]
         ELSE st
    ELSE st

\* Object.keys(props).forEach(...), line 121
RECURSIVE forEachKey(_, _, _)
forEachKey(st, entries, i) ==
    IF i > Len(entries)
    THEN st
    ELSE forEachKey(ApplyKey(st, entries[i].key, entries[i].value),
                    entries, i + 1)

IsHtmlElement_AnyType(result) ==
    IF ~Truthy(result.val) THEN "false"
    ELSE IF TypeOf(result.val) # "object" THEN "false"
    ELSE IF result.val.t \notin {"object", "function"} THEN "throw"
    ELSE IF ~result.hasType THEN "false"
    ELSE "true"

\* the condition of line 116; `'type' in result` throws on a primitive
IsHtmlElement(result) ==
    IF ~Truthy(result.val) THEN "false"
    ELSE IF TypeOf(result.val) # "object" THEN "false"
    ELSE IF result.val.t \notin {"object", "function"} THEN "throw"
    ELSE IF ~result.hasType THEN "false"
    ELSE IF result.type = JSStr("html") THEN "true" ELSE "false"

\* the condition of line 119; reading a property of null/undefined throws
HasProps(result) ==
    IF result.val.t \in {"null", "undefined"} THEN "throw"
    ELSE IF Truthy(result.props.v) THEN "true" ELSE "false"

\* what line 143 / line 148 returns, given the props
ExtractChildren(result) ==
    LET children == PropsGet(result.props, "children")
    IN IF Truthy(children) THEN children ELSE result.val

Outcome(ret, el, log, thrown) ==
    [ret |-> ret, el |-> el, log |-> log, threw |-> thrown]

\* wrappedFn, lines 111-149, applied to fn()'s result and the root element
wrappedFn(result, el) ==
    LET isHtml == IsHtmlElement(result)
    IN IF isHtml = "throw" THEN Outcome(JSUndefined, el, <<>>, TRUE)
       ELSE IF isHtml = "false" THEN Outcome(result.val, el, <<>>, FALSE)
       ELSE LET hasProps == HasProps(result)
            IN IF hasProps = "throw" THEN Outcome(JSUndefined, el, <<>>, TRUE)
               ELSE IF hasProps = "false"
                    THEN Outcome(result.val, el, <<>>, FALSE)
                    ELSE LET st == forEachKey([el |-> el, log |-> <<>>],
                                              result.props.entries, 1)
                         IN Outcome(ExtractChildren(result), st.el, st.log, FALSE)

\* the options argument: omitted, or an object holding a subset of
\* {renderId, owner}
Omitted == [given |-> FALSE, hasRenderId |-> FALSE, renderId |-> "",
            hasOwner |-> FALSE, owner |-> ""]
OptionsObject(hasRenderId, hasOwner) ==
    [given |-> TRUE,
     hasRenderId |-> hasRenderId,
     renderId |-> IF hasRenderId THEN "island" ELSE "",
     hasOwner |-> hasOwner,
     owner |-> IF hasOwner THEN "owner" ELSE ""]

\* hydrateCore(code, element, options) of ./client.js: runs code() inside a
\* new root, inserts what it returns into element, returns the root's disposer
hydrateCore(code, element, opts) ==
    [code |-> code.ret,
     element |-> element,
     options |-> opts,
     threw |-> code.threw,
     disposer |-> IF code.threw THEN JSUndefined ELSE JSFunc("dispose"),
     steps |-> <<"hydrateCore", "fn">>
               \o [i \in DOMAIN code.log |-> "write"]]

hydrateDocument_NoReturn(result, el, opts) ==
    LET code == wrappedFn(result, el)
        core == hydrateCore(code, "documentElement", opts)
    IN [el |-> code.el,
        log |-> code.log,
        core |-> [code |-> core.code, element |-> core.element,
                  options |-> core.options],
        returned |-> JSUndefined,
        threw |-> core.threw,
        steps |-> <<"enableHydration">> \o core.steps]

hydrateDocument_DefaultOptions(result, el, opts) ==
    LET code == wrappedFn(result, el)
        core == hydrateCore(code, "documentElement",
                            IF opts.given THEN opts
                            ELSE OptionsObject(FALSE, FALSE))
    IN [el |-> code.el,
        log |-> code.log,
        core |-> [code |-> core.code, element |-> core.element,
                  options |-> core.options],
        returned |-> core.disposer,
        threw |-> core.threw,
        steps |-> <<"enableHydration">> \o core.steps]

\* hydrateDocument(fn, options), lines 104-155: the state after the call
hydrateDocument(result, el, opts) ==
    LET code == wrappedFn(result, el)
        core == hydrateCore(code, "documentElement", opts)
    IN [el |-> code.el,
        log |-> code.log,
        core |-> [code |-> core.code, element |-> core.element,
                  options |-> core.options],
        returned |-> core.disposer,
        threw |-> core.threw,
        steps |-> <<"enableHydration">> \o core.steps]

hydrate_EnableLast(result, element, opts) ==
    LET core == hydrateCore(Outcome(result.val, element, <<>>, FALSE),
                            element, opts)
    IN [core |-> [code |-> core.code, element |-> core.element,
                  options |-> core.options],
        returned |-> core.disposer,
        threw |-> core.threw,
        steps |-> core.steps \o <<"enableHydration">>]

\* hydrate(fn, element, options), lines 46-49: fn goes to hydrateCore as it is
hydrate(result, element, opts) ==
    LET core == hydrateCore(Outcome(result.val, element, <<>>, FALSE),
                            element, opts)
    IN [core |-> [code |-> core.code, element |-> core.element,
                  options |-> core.options],
        returned |-> core.disposer,
        threw |-> core.threw,
        steps |-> <<"enableHydration">> \o core.steps]

\* each step of a call with the hydration mode it found: enableHydration()
\* switches the mode on for the steps after it, and for later calls
Stamp(steps, enabled) ==
    [i \in DOMAIN steps |->
        [step |-> steps[i],
         enabled |-> enabled \/ \E j \in 1..(i - 1) :
                                  steps[j] = "enableHydration"]]

EnabledAfter(steps, enabled) ==
    enabled \/ \E j \in DOMAIN steps : steps[j] = "enableHydration"

-----------------------------------------------------------------------------
(* Inputs *)

AttrKeys == {"lang", "data-loaded"}
ClassKeys == {"class", "className"}
Keys == AttrKeys \cup ClassKeys \cup {"children", "ref"}

AttrValues == {JSNull, JSUndefined, JSBool(TRUE), JSBool(FALSE),
               JSStr("en"), JSNum(42)}
ClassValues == {JSNull, JSUndefined, JSBool(FALSE), JSStr("en"), JSNum(42)}
ChildrenValues == {JSNull, JSStr("some children"), JSObj("div")}
RefValues == {JSFunc("mockRef")}

ValuesFor(key) ==
    IF key = "children" THEN ChildrenValues
    ELSE IF key = "ref" THEN RefValues
    ELSE IF key \in ClassKeys THEN ClassValues
    ELSE AttrValues

KeysOf(entries) == {entries[i].key : i \in DOMAIN entries}

\* the props objects with exactly k own keys, in every key order
RECURSIVE PropsOfLen(_)
PropsOfLen(k) ==
    IF k = 0
    THEN {<<>>}
    ELSE UNION {UNION {{Append(p, [key |-> key, value |-> v]) :
                          v \in ValuesFor(key)} : key \in Keys \ KeysOf(p)} :
                  p \in PropsOfLen(k - 1)}

PropsEntries == UNION {PropsOfLen(k) : k \in 0..MaxProps}

HtmlWrappers == {Node("html", PropsObject(p)) : p \in PropsEntries}

\* results that are no html wrapper with props
Others ==
    {Primitive(JSNull), Primitive(JSUndefined), Primitive(JSStr("text content")),
     Primitive(JSNum(42)), Primitive(JSFunc("component")),
     Node("div", PropsObject(<<>>)),
     Node("div", PropsObject(<<[key |-> "lang", value |-> JSStr("en")]>>)),
     Untyped(PropsObject(<<[key |-> "lang", value |-> JSStr("en")]>>)),
     Node("html", NoProps(JSNull)),
     Node("html", NoProps(JSUndefined))}

Results == HtmlWrappers \cup Others

\* the producers' results used where the order of the steps of a call is
\* what matters: wrappers with at most one key, and the non-wrappers
OrderResults ==
    {Node("html", PropsObject(p)) : p \in PropsOfLen(0) \cup PropsOfLen(1)}
        \cup Others

OptionsValues ==
    {Omitted} \cup {OptionsObject(r, o) : r \in BOOLEAN, o \in BOOLEAN}

\* the root element as the server rendered it
InitialElements ==
    {Element(<<>>, ""),
     Element([k \in {"lang", "data-loaded", "children"} |->
                 IF k = "lang" THEN "fr" ELSE IF k = "children" THEN "x" ELSE ""],
             "dark")}

NoCall == [code |-> JSUndefined, element |-> "", options |-> Omitted]

-----------------------------------------------------------------------------
(* State machine of hydrateDocument *)

HdInit ==
    /\ documentElement \in InitialElements
    /\ \/ fn \in Results /\ options = Omitted
       \/ fn \in Others /\ options \in OptionsValues
    /\ pre = documentElement
    /\ domLog = <<>>
    /\ coreCall = NoCall
    /\ hydrationEnabled = FALSE
    /\ returned = JSUndefined
    /\ threw = FALSE
    /\ root = [status |-> "none", content |-> "server"]
    /\ disposals = 0
    /\ trace = <<>>

\* one call hydrateDocument(fn, options)
HydrateDocument ==
    /\ LET r == hydrateDocument(fn, documentElement, options)
       IN /\ pre' = documentElement
          /\ documentElement' = r.el
          /\ domLog' = r.log
          /\ coreCall' = r.core
          /\ returned' = r.returned
          /\ threw' = r.threw
          /\ root' = IF r.threw THEN root
                     ELSE [status |-> "live", content |-> "hydrated"]
          /\ trace' = Stamp(r.steps, hydrationEnabled)
          /\ hydrationEnabled' = EnabledAfter(r.steps, hydrationEnabled)
    /\ disposals' = 0
    /\ UNCHANGED <<fn, options>>

\* one call hydrate(fn, container, options)
Hydrate ==
    /\ LET r == hydrate(fn, "container", options)
       IN /\ pre' = documentElement
          /\ domLog' = <<>>
          /\ coreCall' = r.core
          /\ returned' = r.returned
          /\ threw' = r.threw
          /\ root' = [status |-> "live", content |-> "hydrated"]
          /\ trace' = Stamp(r.steps, hydrationEnabled)
          /\ hydrationEnabled' = EnabledAfter(r.steps, hydrationEnabled)
    /\ disposals' = 0
    /\ UNCHANGED <<documentElement, fn, options>>

\* the caller invokes the disposer the last call returned: the root is
\* disposed and the element's textContent is cleared
Dispose ==
    /\ returned.t = "function"
    /\ disposals < MaxDisposals
    /\ root' = [status |-> "disposed", content |-> ""]
    /\ disposals' = disposals + 1
    /\ UNCHANGED <<documentElement, fn, options, pre, domLog, coreCall,
                   hydrationEnabled, returned, threw, trace>>

-----------------------------------------------------------------------------
(* Portal, lines 164-217.  The reactive core (createEffect, onCleanup,     *)
(* createRoot) belongs to solid-js: an effect runs after it is created and *)
(* again after a prop it read has changed; before each re-run and when its *)
(* owner is disposed, the cleanups it registered run, once each.           *)

Targets == {"body", "head", "nodeA"}

\* where the marker text node Portal returns can be: detached, or a child
MarkerParents == {"null", "app", "aside"}
MountValues == {"undefined"} \cup Targets

\* line 178: props.mount || document.body
mount(props) == IF props.mount = "undefined" THEN "body" ELSE props.mount

SVG_NAMESPACE == "http://www.w3.org/2000/svg"

createElement_IgnoreSVG(tagName, isSVG, is) ==
    [tag |-> tagName, ns |-> "html", is |-> is]

\* createElement, lines 40-44: `is` is passed on only outside the SVG namespace
createElement(tagName, isSVG, is) ==
    IF isSVG
    THEN [tag |-> tagName, ns |-> SVG_NAMESPACE, is |-> "undefined"]
    ELSE [tag |-> tagName, ns |-> "html", is |-> is]

\* el.appendChild(container), line 208
appendChild(kids, el, id) == [kids EXCEPT ![el] = Append(@, id)]

IsChild(kids, el, id) == \E i \in DOMAIN kids[el] : kids[el][i] = id

\* el.removeChild(container), line 210
removeChild(kids, el, id) ==
    [kids EXCEPT ![el] = SelectSeq(@, LAMBDA c : c # id)]

\* the cleanup registered by line 210 (non-head) or line 193 (head)
RemoveCleanup(el, id) == [kind |-> "removeChild", el |-> el, id |-> id]
CleanCleanup(id) == [kind |-> "setClean", el |-> "head", id |-> id]

PortalState(cs, kids, roots, cleanups, thrown, log) ==
    [containers |-> cs, children |-> kids, headRoots |-> roots,
     cleanups |-> cleanups, threw |-> thrown, log |-> log]

DomCall(op, el, id) == [op |-> op, el |-> el, id |-> id]

\* line 192, the accessor given to insert(): the content while the cleanup
\* signal is false; once it is true, dispose() and nothing to insert
HeadInsert(clean) ==
    [clean |-> clean, inHead |-> ~clean, disposed |-> clean]

RunCleanup_FromBody(st, cl) ==
    IF cl.kind = "removeChild"
    THEN IF IsChild(st.children, "body", cl.id)
         THEN [st EXCEPT !.children = removeChild(st.children, "body", cl.id),
                         !.containers[cl.id].cleanupRuns = @ + 1,
                         !.log = Append(@, DomCall("removeChild", "body", cl.id))]
         ELSE [st EXCEPT !.containers[cl.id].cleanupRuns = @ + 1,
                         !.log = Append(@, DomCall("removeChild", "body", cl.id)),
                         !.threw = @ \cup {"removeChild"}]
    ELSE [st EXCEPT !.headRoots[cl.id] = HeadInsert(TRUE)]

\* one registered cleanup runs: line 210 (removeChild throws when the
\* container is no child of el) or line 191 (setClean(true), after which the
\* nested root's insert runs again)
RunCleanup(st, cl) ==
    IF cl.kind = "removeChild"
    THEN IF IsChild(st.children, cl.el, cl.id)
         THEN [st EXCEPT !.children = removeChild(st.children, cl.el, cl.id),
                         !.containers[cl.id].cleanupRuns = @ + 1,
                         !.log = Append(@, DomCall("removeChild", cl.el, cl.id))]
         ELSE [st EXCEPT !.containers[cl.id].cleanupRuns = @ + 1,
                         !.log = Append(@, DomCall("removeChild", cl.el, cl.id)),
                         !.threw = @ \cup {"removeChild"}]
    ELSE [st EXCEPT !.headRoots[cl.id] = HeadInsert(TRUE)]

\* the cleanups of a computation run last-registered first
RECURSIVE RunCleanups(_, _)
RunCleanups(st, i) ==
    IF i = 0
    THEN [st EXCEPT !.cleanups = <<>>]
    ELSE RunCleanups(RunCleanup(st, st.cleanups[i]), i - 1)

HeadBranch_NoCleanup(st) ==
    [st EXCEPT !.headRoots = Append(@, HeadInsert(FALSE)),
               !.log = Append(@, DomCall("insert", "head",
                                         Len(st.headRoots) + 1))]

\* lines 190-193: the content goes straight into the head, inside a nested root
HeadBranch(st) ==
    LET id == Len(st.headRoots) + 1
    IN [st EXCEPT !.headRoots = Append(@, HeadInsert(FALSE)),
                  !.log = Append(@, DomCall("insert", "head", id)),
                  !.cleanups = Append(@, CleanCleanup(id))]

defineHost_Captured(parentNow) == [kind |-> "value", v |-> parentNow]

\* lines 201-206: `_$host` is defined as a getter of marker.parentNode
defineHost(parentNow) == [kind |-> "getter", v |-> "null"]

\* container._$host, read while the marker's parent is parentNow
ReadHost(c, parentNow) ==
    IF c.host.kind = "getter" THEN parentNow ELSE c.host.v

\* lines 197-199: the shadow root is asked for when useShadow is truthy and
\* the container has an attachShadow method (env)
RenderRoot_AlwaysShadow(useShadow, env) == "shadowRoot"

RenderRoot(useShadow, env) ==
    IF useShadow /\ env THEN "shadowRoot" ELSE "container"

\* line 198, container.attachShadow({mode: "open"}): the DOM rejects the call
\* with NotSupportedError on an element outside the HTML namespace
AttachShadowThrows(container) == container.ns # "html"

\* the container as the branch leaves it, lines 195-209
Container(container, renderRoot, parentNow, el, ref) ==
    [tag |-> container.tag,
     ns |-> container.ns,
     shadow |-> renderRoot = "shadowRoot",
     renderRoot |-> renderRoot,
     host |-> defineHost(parentNow),
     target |-> el,
     refCalled |-> ref,
     cleanupRuns |-> 0]

ContainerBranch_NoCleanup(props, env, useShadow, parentNow, el, st) ==
    LET id == Len(st.containers) + 1
        container == createElement(IF props.isSVG THEN "g" ELSE "div",
                                   props.isSVG, "undefined")
        renderRoot == RenderRoot(useShadow, env)
    IN IF renderRoot = "shadowRoot" /\ AttachShadowThrows(container)
       THEN [st EXCEPT !.log = Append(@, DomCall("attachShadow", el, id)),
                       !.threw = @ \cup {"attachShadow"}]
       ELSE [st EXCEPT !.containers =
                          Append(@, Container(container, renderRoot, parentNow,
                                              el, props.ref)),
                       !.children = appendChild(st.children, el, id),
                       !.log = Append(@, DomCall("appendChild", el, id))]

\* lines 195-210: the content goes into a new container appended to el; when
\* attachShadow throws, the run ends there: nothing is rendered, appended or
\* registered, and the container is dropped
ContainerBranch(props, env, useShadow, parentNow, el, st) ==
    LET id == Len(st.containers) + 1
        container == createElement(IF props.isSVG THEN "g" ELSE "div",
                                   props.isSVG, "undefined")
        renderRoot == RenderRoot(useShadow, env)
    IN IF renderRoot = "shadowRoot" /\ AttachShadowThrows(container)
       THEN [st EXCEPT !.log = Append(@, DomCall("attachShadow", el, id)),
                       !.threw = @ \cup {"attachShadow"}]
       ELSE [st EXCEPT !.containers =
                          Append(@, Container(container, renderRoot, parentNow,
                                              el, props.ref)),
                       !.children = appendChild(st.children, el, id),
                       !.log = Append(@, DomCall("appendChild", el, id)),
                       !.cleanups = Append(@, RemoveCleanup(el, id))]

\* the body of the mount effect, lines 184-212
PortalEffect(props, env, useShadow, parentNow, st) ==
    LET el == mount(props)
    IN IF el = "head"
       THEN HeadBranch(st)
       ELSE ContainerBranch(props, env, useShadow, parentNow, el, st)

PortalProps ==
    [mount : MountValues, isSVG : BOOLEAN, useShadow : BOOLEAN, ref : BOOLEAN]

NoEffect ==
    [state |-> "none", useShadow |-> FALSE, cleanups |-> <<>>, runs |-> 0,
     failed |-> 0]

PortalInit ==
    /\ pProps \in PortalProps
    /\ pEnv \in BOOLEAN
    /\ portal = "none"
    /\ effect = NoEffect
    /\ containers = <<>>
    /\ childNodes = [t \in Targets |-> <<>>]
    /\ headRoots = <<>>
    /\ pThrew = {}
    /\ markerParent = "null"
    /\ pLog = <<>>

\* Portal(props), lines 176-216: useShadow is read once, the effect is created
Portal ==
    /\ portal = "none"
    /\ portal' = "created"
    /\ effect' = [state |-> "scheduled", useShadow |-> pProps.useShadow,
                  cleanups |-> <<>>, runs |-> 0, failed |-> 0]
    /\ UNCHANGED <<pProps, pEnv, containers, childNodes, headRoots, pThrew,
                   markerParent, pLog>>

\* a run of the effect's body ended with an exception
Rejected(log) == \E i \in DOMAIN log : log[i].op = "attachShadow"

\* the mount effect runs: first its cleanups of the previous run, then its
\* body; a run that throws leaves the effect subscribed to what it had read
RunEffect ==
    /\ portal = "created"
    /\ effect.state = "scheduled"
    /\ effect.runs < MaxRuns
    /\ LET st0 == PortalState(containers, childNodes, headRoots,
                              effect.cleanups, pThrew, <<>>)
           st1 == RunCleanups(st0, Len(st0.cleanups))
           st2 == PortalEffect(pProps, pEnv, effect.useShadow, markerParent, st1)
       IN /\ containers' = st2.containers
          /\ childNodes' = st2.children
          /\ headRoots' = st2.headRoots
          /\ pThrew' = st2.threw
          /\ pLog' = st2.log
          /\ effect' = [effect EXCEPT !.state = "clean",
                                      !.cleanups = st2.cleanups,
                                      !.runs = @ + 1,
                                      !.failed = IF Rejected(st2.log)
                                                 THEN @ + 1 ELSE @]
    /\ UNCHANGED <<pProps, pEnv, portal, markerParent>>

\* props.mount changes; the effect has read it, so it is scheduled again
SetMount(m) ==
    /\ portal = "created"
    /\ m # pProps.mount
    /\ pProps' = [pProps EXCEPT !.mount = m]
    /\ effect' = IF effect.state = "clean"
                 THEN [effect EXCEPT !.state = "scheduled"]
                 ELSE effect
    /\ UNCHANGED <<pEnv, portal, containers, childNodes, headRoots, pThrew,
                   markerParent, pLog>>

\* props.isSVG changes; the non-head branch of the effect reads it
SetIsSVG ==
    /\ portal = "created"
    /\ pProps' = [pProps EXCEPT !.isSVG = ~@]
    /\ effect' = IF effect.state = "clean" /\ mount(pProps) # "head"
                 THEN [effect EXCEPT !.state = "scheduled"]
                 ELSE effect
    /\ UNCHANGED <<pEnv, portal, containers, childNodes, headRoots, pThrew,
                   markerParent, pLog>>

\* props.useShadow changes; Portal read it once (line 176), the effect
\* never reads it
SetUseShadow ==
    /\ portal = "created"
    /\ pProps' = [pProps EXCEPT !.useShadow = ~@]
    /\ UNCHANGED <<pEnv, portal, effect, containers, childNodes, headRoots,
                   pThrew, markerParent, pLog>>

\* the caller inserts the marker Portal returned under parent p, moves it,
\* or detaches it (p = "null")
MoveMarker(p) ==
    /\ portal = "created"
    /\ p # markerParent
    /\ markerParent' = p
    /\ UNCHANGED <<pProps, pEnv, portal, effect, containers, childNodes,
                   headRoots, pThrew, pLog>>

\* the scope that owns the Portal is disposed: the effect's cleanups run
Teardown ==
    /\ portal = "created"
    /\ portal' = "disposed"
    /\ LET st0 == PortalState(containers, childNodes, headRoots,
                              effect.cleanups, pThrew, <<>>)
           st1 == RunCleanups(st0, Len(st0.cleanups))
       IN /\ containers' = st1.containers
          /\ childNodes' = st1.children
          /\ headRoots' = st1.headRoots
          /\ pThrew' = st1.threw
          /\ pLog' = st1.log
          /\ effect' = [effect EXCEPT !.state = "disposed",
                                      !.cleanups = st1.cleanups]
    /\ UNCHANGED <<pProps, pEnv, markerParent>>

-----------------------------------------------------------------------------
(* createDynamic and Dynamic, lines 237-277.  createMemo and untrack belong *)
(* to solid-js; spread, getNextElement and SVGElements to ./client.js.  A   *)
(* memo is evaluated when it is created and again when a source it read has *)
(* changed; it notifies its readers only when its value changed (===).      *)

\* the values a selector can yield: components, tag names, and values that
\* are neither
SelectorValues ==
    {JSFunc("CompA"), JSFunc("CompB"), JSStr("div"), JSStr("circle"),
     JSUndefined, JSNull, JSNum(42)}

\* SVGElements of ./client.js: the tag names created in the SVG namespace
SVGElements == {"circle", "g", "path", "svg"}

\* the props of Dynamic besides `component`
OtherKeys == {"id", "is"}

PropValues(key) ==
    IF key = "is" THEN {JSStr("my-element")} ELSE {JSStr("a"), JSStr("b")}

\* the props objects Dynamic is called with
DynamicProps ==
    UNION {[{"component"} \cup ks -> SelectorValues \cup
                UNION {PropValues(k) : k \in OtherKeys}] :
           ks \in SUBSET OtherKeys}

WellTyped(props) ==
    /\ props["component"] \in SelectorValues
    /\ \A k \in DOMAIN props \ {"component"} : props[k] \in PropValues(k)

NoPropsPassed == [k \in {} |-> JSUndefined]

\* props[key] of an object, undefined when the key is absent
ReadProp(props, key) ==
    IF key \in DOMAIN props THEN props[key] ELSE JSUndefined

\* splitProps(props, keys) of solid-js as line 275 uses it: the picked keys,
\* and the others
splitProps(props, keys) ==
    <<[k \in DOMAIN props \cap keys |-> props[k]],
      [k \in DOMAIN props \ keys |-> props[k]]>>

OthersOf_All(props) == props

\* line 275: const [, others] = splitProps(props, ["component"])
OthersOf(props) == splitProps(props, {"component"})[2]

\* line 276: the selector Dynamic hands to createDynamic
Selector(props) == props["component"]

SelectorNotifies_Always(old, new) == TRUE

\* line 241, createMemo(component): the rendering memo is notified only when
\* the selector's value is another one than before
SelectorNotifies(old, new) == old # new

\* what a component reads while it runs: its props and signals of its own
ComponentReads == {"props", "signal"}

\* untrack(f): the reads made by f are not tracked
untrack(reads) == {}

InvokeReads_Tracked == ComponentReads

\* line 247: the reads the rendering memo tracks while the component runs
InvokeReads == untrack(ComponentReads)

NoElement == [tag |-> "", ns |-> "", is |-> "undefined"]

\* getNextElement() of ./client.js: the next element the server rendered
getNextElement == [tag |-> "server", ns |-> "server", is |-> "undefined"]

\* `is` as line 253 reads it
IsOption(props) ==
    IF ReadProp(props, "is").t = "string" THEN ReadProp(props, "is").s
    ELSE "undefined"

\* one run of the rendering memo, lines 242-264
RenderMemo(component, props, context) ==
    IF TypeOf(component) = "function"
    THEN [value |-> component, context |-> context, kind |-> "component",
          props |-> props, el |-> NoElement, created |-> FALSE,
          adopted |-> FALSE, spread |-> NoPropsPassed, isSvg |-> FALSE,
          reads |-> InvokeReads]
    ELSE IF TypeOf(component) = "string"
    THEN LET isSvg == component.s \in SVGElements
             el == IF context
                   THEN getNextElement
                   ELSE createElement(component.s, isSvg, IsOption(props))
         IN [value |-> component, context |-> context, kind |-> "element",
             props |-> NoPropsPassed, el |-> el, created |-> ~context,
             adopted |-> context, spread |-> props, isSvg |-> isSvg,
             reads |-> IF context THEN {} ELSE untrack({"props"})]
    ELSE [value |-> component, context |-> context, kind |-> "undefined",
          props |-> NoPropsPassed, el |-> NoElement, created |-> FALSE,
          adopted |-> FALSE, spread |-> NoPropsPassed, isSvg |-> FALSE,
          reads |-> {}]

\* createDynamic(component, props), lines 237-265: both memos are evaluated
createDynamic(selected, props, context) ==
    [cached |-> selected, out |-> RenderMemo(selected, props, context)]

\* Dynamic(props), lines 274-277
DynamicOf(props, context) ==
    createDynamic(Selector(props), OthersOf(props), context)

\* the sources the rendering memo is subscribed to
Tracked(history) ==
    IF history = <<>> THEN {}
    ELSE {"cached"} \cup history[Len(history)].reads

DynamicInit ==
    /\ dProps \in DynamicProps
    /\ WellTyped(dProps)
    /\ dContext \in BOOLEAN
    /\ dCreated = FALSE
    /\ dCached = JSUndefined
    /\ dEvals = 0
    /\ dSignal = FALSE
    /\ dHistory = <<>>

\* the call Dynamic(props)
Dynamic ==
    /\ ~dCreated
    /\ dCreated' = TRUE
    /\ LET r == DynamicOf(dProps, dContext)
       IN /\ dCached' = r.cached
          /\ dHistory' = <<r.out>>
    /\ dEvals' = 1
    /\ UNCHANGED <<dProps, dContext, dSignal>>

\* the rendering memo runs again
Rerender(props) ==
    dHistory' = Append(dHistory, RenderMemo(dCached', OthersOf(props), dContext))

\* what the selector reads is written (v may be the value it had): the
\* selector is evaluated again
SetComponent(v) ==
    /\ dCreated
    /\ dEvals < MaxEvals
    /\ dProps' = [dProps EXCEPT !["component"] = v]
    /\ dEvals' = dEvals + 1
    /\ dCached' = Selector(dProps')
    /\ IF SelectorNotifies(dCached, dCached')
       THEN Rerender(dProps')
       ELSE UNCHANGED dHistory
    /\ UNCHANGED <<dContext, dCreated, dSignal>>

\* a signal the components read is written
SetSignal ==
    /\ dCreated
    /\ dSignal' = ~dSignal
    /\ IF "signal" \in Tracked(dHistory) /\ Len(dHistory) < MaxEvals
       THEN dCached' = dCached /\ Rerender(dProps)
       ELSE UNCHANGED <<dCached, dHistory>>
    /\ UNCHANGED <<dProps, dContext, dCreated, dEvals>>

\* props.id changes
SetProp ==
    /\ dCreated
    /\ "id" \in DOMAIN dProps
    /\ dProps' = [dProps EXCEPT !["id"] =
                     IF @ = JSStr("a") THEN JSStr("b") ELSE JSStr("a")]
    /\ IF "props" \in Tracked(dHistory) /\ Len(dHistory) < MaxEvals
       THEN dCached' = dCached /\ Rerender(dProps')
       ELSE UNCHANGED <<dCached, dHistory>>
    /\ UNCHANGED <<dContext, dCreated, dEvals, dSignal>>

\* hydration completes: sharedConfig.context is cleared
EndHydration ==
    /\ dContext
    /\ dContext' = FALSE
    /\ UNCHANGED <<dProps, dCreated, dCached, dEvals, dSignal, dHistory>>

\* the state of Dynamic while another part is exercised
DynamicIdle ==
    /\ dProps = [k \in {"component"} |-> JSUndefined]
    /\ dContext = FALSE
    /\ dCreated = FALSE
    /\ dCached = JSUndefined
    /\ dEvals = 0
    /\ dSignal = FALSE
    /\ dHistory = <<>>

\* the state of the Portal while hydrateDocument is exercised
PortalIdle ==
    /\ pProps = [mount |-> "undefined", isSVG |-> FALSE, useShadow |-> FALSE,
                 ref |-> FALSE]
    /\ pEnv = TRUE
    /\ portal = "none"
    /\ effect = NoEffect
    /\ containers = <<>>
    /\ childNodes = [t \in Targets |-> <<>>]
    /\ headRoots = <<>>
    /\ pThrew = {}
    /\ markerParent = "null"
    /\ pLog = <<>>

\* the state of hydrateDocument while the Portal is exercised
HdIdle ==
    /\ documentElement = Element(<<>>, "")
    /\ fn = Primitive(JSNull)
    /\ options = Omitted
    /\ pre = documentElement
    /\ domLog = <<>>
    /\ coreCall = NoCall
    /\ hydrationEnabled = FALSE
    /\ returned = JSUndefined
    /\ threw = FALSE
    /\ root = [status |-> "none", content |-> "server"]
    /\ disposals = 0
    /\ trace = <<>>

Init == HdInit /\ PortalIdle /\ DynamicIdle

Next ==
    \/ HydrateDocument /\ UNCHANGED <<portalVars, dynVars>>
    \/ Dispose /\ UNCHANGED <<portalVars, dynVars>>

Spec == Init /\ [][Next]_vars

\* both entry points, called in any order on one page
InitHydrate ==
    /\ HdInit
    /\ fn \in OrderResults
    /\ PortalIdle
    /\ DynamicIdle

NextHydrate ==
    \/ Hydrate /\ UNCHANGED <<portalVars, dynVars>>
    \/ HydrateDocument /\ UNCHANGED <<portalVars, dynVars>>
    \/ Dispose /\ UNCHANGED <<portalVars, dynVars>>

SpecHydrate == InitHydrate /\ [][NextHydrate]_vars

InitPortal == PortalInit /\ HdIdle /\ DynamicIdle

NextPortal ==
    \/ Portal /\ UNCHANGED <<hdVars, dynVars>>
    \/ RunEffect /\ UNCHANGED <<hdVars, dynVars>>
    \/ (\E m \in MountValues : SetMount(m)) /\ UNCHANGED <<hdVars, dynVars>>
    \/ SetIsSVG /\ UNCHANGED <<hdVars, dynVars>>
    \/ SetUseShadow /\ UNCHANGED <<hdVars, dynVars>>
    \/ (\E p \in MarkerParents : MoveMarker(p)) /\ UNCHANGED <<hdVars, dynVars>>
    \/ Teardown /\ UNCHANGED <<hdVars, dynVars>>

SpecPortal == InitPortal /\ [][NextPortal]_vars

InitDynamic == DynamicInit /\ HdIdle /\ PortalIdle

NextDynamic ==
    \/ Dynamic /\ UNCHANGED <<hdVars, portalVars>>
    \/ (\E v \in SelectorValues : SetComponent(v))
          /\ UNCHANGED <<hdVars, portalVars>>
    \/ SetSignal /\ UNCHANGED <<hdVars, portalVars>>
    \/ SetProp /\ UNCHANGED <<hdVars, portalVars>>
    \/ EndHydration /\ UNCHANGED <<hdVars, portalVars>>

SpecDynamic == InitDynamic /\ [][NextDynamic]_vars

-----------------------------------------------------------------------------
(* Vocabulary of the properties of hydrateDocument *)

\* hydrateDocument has been called at least once
Called == hydrationEnabled

\* the producer's result is {type: "html", props} with a props object
HtmlWithProps(r) ==
    /\ r.val.t = "object"
    /\ r.hasType
    /\ r.type = JSStr("html")
    /\ r.props.v.t = "object"

Nullish(v) == v.t \in {"null", "undefined"}

\* the attribute `name` is the same on both elements: absent on both, or
\* present on both with one value
SameAttr(a, b, name) ==
    /\ hasAttribute(a, name) <=> hasAttribute(b, name)
    /\ hasAttribute(a, name) => a.attrs[name] = b.attrs[name]

\* positions of the class / className keys that carry a non-null value
ClassPositions(entries) ==
    {i \in DOMAIN entries :
        entries[i].key \in {"class", "className"} /\ ~Nullish(entries[i].value)}

Last(S) == CHOOSE i \in S : \A j \in S : j <= i

-----------------------------------------------------------------------------
(* C1: after hydrateDocument on an html wrapper, every props key other     *)
(* than children, ref, class and className whose value is neither null,    *)
(* undefined nor a boolean is an attribute of the root element whose value *)
(* is the string coercion of the props value.                              *)
C1_StringAttributes ==
    (Called /\ HtmlWithProps(fn)) =>
        \A i \in DOMAIN fn.props.entries :
            LET e == fn.props.entries[i]
            IN (/\ e.key \notin {"children", "ref", "class", "className"}
                /\ ~Nullish(e.value)
                /\ e.value.t # "boolean")
               => /\ hasAttribute(documentElement, e.key)
                  /\ documentElement.attrs[e.key] = String(e.value)

C1_Witness ==
    /\ Called
    /\ HtmlWithProps(fn)
    /\ \E i \in DOMAIN fn.props.entries :
          /\ fn.props.entries[i].key = "lang"
          /\ fn.props.entries[i].value = JSNum(42)
    /\ hasAttribute(pre, "lang") /\ pre.attrs["lang"] = "fr"
    /\ documentElement.attrs["lang"] = "42"

(* C2: a boolean-valued props key (other than children, ref, class,        *)
(* className) toggles presence: true leaves the attribute present with the *)
(* empty string as value, false leaves it absent, also when it was present *)
(* before the call.                                                        *)
C2_BooleanAttributes ==
    (Called /\ HtmlWithProps(fn)) =>
        \A i \in DOMAIN fn.props.entries :
            LET e == fn.props.entries[i]
            IN (/\ e.key \notin {"children", "ref", "class", "className"}
                /\ e.value.t = "boolean")
               => IF e.value.b
                  THEN /\ hasAttribute(documentElement, e.key)
                       /\ documentElement.attrs[e.key] = ""
                  ELSE ~hasAttribute(documentElement, e.key)

C2_Witness ==
    /\ Called
    /\ HtmlWithProps(fn)
    /\ \E i \in DOMAIN fn.props.entries :
          /\ fn.props.entries[i].key = "data-loaded"
          /\ fn.props.entries[i].value = JSBool(FALSE)
    /\ hasAttribute(pre, "data-loaded")
    /\ ~hasAttribute(documentElement, "data-loaded")

(* C3, as stated: for every class / className key with a non-null value,   *)
(* the root element's className equals that value after the call, and no   *)
(* attribute named "className" is written.                                 *)
C3_AsStated ==
    (Called /\ HtmlWithProps(fn)) =>
        /\ \A i \in ClassPositions(fn.props.entries) :
              documentElement.className = String(fn.props.entries[i].value)
        /\ \A k \in DOMAIN domLog :
              domLog[k].op # "className" => domLog[k].name # "className"

(* C3, amended: when props holds class or className with a non-null value, *)
(* className is the string coercion of the value of the last such key in   *)
(* the key order of props (of two synonyms the later one wins), and no     *)
(* attribute named "className" is written.                                 *)
C3_LastClassKeyWins ==
    (Called /\ HtmlWithProps(fn)) =>
        /\ ClassPositions(fn.props.entries) # {} =>
              documentElement.className =
                  String(fn.props.entries[Last(ClassPositions(fn.props.entries))].value)
        /\ \A k \in DOMAIN domLog :
              domLog[k].op # "className" => domLog[k].name # "className"
        /\ SameAttr(documentElement, pre, "className")

C3_Witness ==
    /\ Called
    /\ HtmlWithProps(fn)
    /\ Len(fn.props.entries) = 2
    /\ fn.props.entries[1] = [key |-> "className", value |-> JSStr("en")]
    /\ fn.props.entries[2] = [key |-> "class", value |-> JSNum(42)]
    /\ pre.className = "dark"
    /\ documentElement.className = "42"

(* C4, as stated: a props key whose value is null or undefined leaves the  *)
(* attribute of that name, and for class / className the className, as it  *)
(* was before the call, and the call does not throw.                       *)
C4_AsStated ==
    (Called /\ HtmlWithProps(fn)) =>
        /\ ~threw
        /\ \A i \in DOMAIN fn.props.entries :
              LET e == fn.props.entries[i]
              IN Nullish(e.value) =>
                    /\ SameAttr(documentElement, pre, e.key)
                    /\ e.key \in {"class", "className"} =>
                          documentElement.className = pre.className

(* C4, amended: a props key whose value is null or undefined causes no     *)
(* write to the root element and the call does not throw; for a key other  *)
(* than class / className the attribute of that name is as before the      *)
(* call; for class / className the className and the attribute of that     *)
(* name are as before unless the other of the two keys carries a non-null  *)
(* value.                                                                  *)
C4_NullishNeverApplied ==
    (Called /\ HtmlWithProps(fn)) =>
        /\ ~threw
        /\ \A i \in DOMAIN fn.props.entries :
              LET e == fn.props.entries[i]
              IN Nullish(e.value) =>
                    /\ \A k \in DOMAIN domLog : domLog[k].key # e.key
                    /\ e.key \notin {"class", "className"} =>
                          SameAttr(documentElement, pre, e.key)
                    /\ (/\ e.key \in {"class", "className"}
                        /\ ClassPositions(fn.props.entries) = {})
                       => /\ documentElement.className = pre.className
                          /\ SameAttr(documentElement, pre, e.key)

C4_Witness ==
    /\ Called
    /\ HtmlWithProps(fn)
    /\ Len(fn.props.entries) = 2
    /\ fn.props.entries[1] = [key |-> "lang", value |-> JSNull]
    /\ fn.props.entries[2] = [key |-> "class", value |-> JSUndefined]
    /\ hasAttribute(documentElement, "lang")
    /\ documentElement.attrs["lang"] = "fr"
    /\ documentElement.className = "dark"

(* C5: the keys children and ref are never written to the root element as  *)
(* attributes, whatever their values: after a call the root element has an *)
(* attribute named children or ref only if it had it, with that value,     *)
(* before the call.                                                        *)
C5_ChildrenRefNotAttributes ==
    Called =>
        /\ \A k \in DOMAIN domLog : domLog[k].name \notin {"children", "ref"}
        /\ SameAttr(documentElement, pre, "children")
        /\ SameAttr(documentElement, pre, "ref")

C5_Witness ==
    /\ Called
    /\ HtmlWithProps(fn)
    /\ PropsGet(fn.props, "children") = JSStr("some children")
    /\ PropsGet(fn.props, "ref") = JSFunc("mockRef")
    /\ ~hasAttribute(pre, "children")
    /\ ~hasAttribute(documentElement, "children")
    /\ ~hasAttribute(documentElement, "ref")

(* C6, as stated: whenever the producer returns an html wrapper with       *)
(* props, the value handed to core hydration is props.children, not the    *)
(* wrapper object.                                                         *)
C6_ChildrenForwarded ==
    (Called /\ HtmlWithProps(fn)) =>
        /\ coreCall.code = PropsGet(fn.props, "children")
        /\ coreCall.code # fn.val

(* C7: when the producer's result is not an html wrapper with props, the   *)
(* root element is left as it was, the result is forwarded to core         *)
(* hydration unchanged, and the call does not throw.                       *)
C7_PassThrough ==
    (Called /\ ~HtmlWithProps(fn)) =>
        /\ documentElement = pre
        /\ domLog = <<>>
        /\ coreCall.code = fn.val
        /\ ~threw

C7_Witness ==
    /\ Called
    /\ fn = Node("div", PropsObject(<<[key |-> "lang", value |-> JSStr("en")]>>))
    /\ pre.className = "dark"
    /\ documentElement = pre
    /\ coreCall.code = JSObj("node")

(* C8: hydrateDocument returns a callable disposer for every producer      *)
(* result and every options value; invoking the disposer does not throw,   *)
(* and a second or later invocation leaves the state the first one left.   *)
C8_Disposer ==
    /\ [](Called => (returned.t = "function" /\ ~threw))
    /\ [](disposals >= 1 => (root.status = "disposed" /\ ~threw))
    /\ [][(disposals >= 1 /\ disposals' = disposals + 1) =>
            /\ root' = root
            /\ documentElement' = documentElement
            /\ returned' = returned
            /\ threw' = threw]_vars

C8_Witness ==
    /\ Called
    /\ returned.t = "function"
    /\ disposals >= 2
    /\ root.status = "disposed"

(* C9: hydrateDocument hands its options argument to core hydration as it  *)
(* got it (also when it is omitted), always with the root document element *)
(* as target, and the call does not throw for any subset of                *)
(* {renderId, owner}.                                                      *)
C9_OptionsVerbatim ==
    Called =>
        /\ coreCall.options = options
        /\ coreCall.element = "documentElement"
        /\ ~threw

C9_Witness ==
    /\ Called
    /\ options = OptionsObject(TRUE, TRUE)
    /\ coreCall.options.renderId = "island"
    /\ coreCall.options.owner = "owner"

\* the steps of a call that must find hydration mode on
NeedsHydrationMode == {"hydrateCore", "fn", "write"}

(* C17: in hydrate and in hydrateDocument, hydration mode is switched on   *)
(* before core hydration starts and before the producer is invoked; the    *)
(* producer never runs, and no attribute is copied onto the root element,  *)
(* while hydration mode is off.                                            *)
C17_EnabledFirst ==
    /\ \A i \in DOMAIN trace :
          trace[i].step \in NeedsHydrationMode => trace[i].enabled
    /\ trace # <<>> =>
          /\ trace[1].step = "enableHydration"
          /\ \E i \in DOMAIN trace : trace[i].step = "hydrateCore"
          /\ \E i \in DOMAIN trace : trace[i].step = "fn"
          /\ Len(domLog) =
                Cardinality({i \in DOMAIN trace : trace[i].step = "write"})
    /\ ~hydrationEnabled =>
          /\ trace = <<>>
          /\ coreCall = NoCall
          /\ domLog = <<>>
          /\ documentElement = pre

C17_Witness ==
    /\ coreCall.element = "documentElement"
    /\ Len(trace) = 4
    /\ trace[1] = [step |-> "enableHydration", enabled |-> FALSE]
    /\ trace[2] = [step |-> "hydrateCore", enabled |-> TRUE]
    /\ trace[3] = [step |-> "fn", enabled |-> TRUE]
    /\ trace[4] = [step |-> "write", enabled |-> TRUE]
    /\ documentElement # pre

C17_WitnessHydrate ==
    /\ coreCall.element = "container"
    /\ trace = <<[step |-> "enableHydration", enabled |-> FALSE],
                 [step |-> "hydrateCore", enabled |-> TRUE],
                 [step |-> "fn", enabled |-> TRUE]>>

-----------------------------------------------------------------------------
(* Vocabulary of the properties of Portal *)

\* container id is a child of target t
Attached(id, t) == IsChild(childNodes, t, id)

\* the cleanup that removes container id from target t is registered
RemovalRegistered(id, t) ==
    \E k \in DOMAIN effect.cleanups : effect.cleanups[k] = RemoveCleanup(t, id)

\* the containers that are children of some target
AttachedContainers ==
    {id \in DOMAIN containers : \E t \in Targets : Attached(id, t)}

\* the effect has run and nothing it read has changed since
Settled == portal = "created" /\ effect.state = "clean"

\* the last run of the effect asked for a shadow root on an SVG container
ShadowOnSVG == effect.useShadow /\ pEnv /\ pProps.isSVG

CleanRegistered(id) ==
    \E k \in DOMAIN effect.cleanups : effect.cleanups[k] = CleanCleanup(id)

(* C11: with the document head as target no container is created and the   *)
(* content is inserted straight into the head; when the effect's cleanup   *)
(* fires, the cleanup signal becomes true, the content leaves the head and *)
(* the nested root that inserted it is disposed, so that after teardown    *)
(* none of the Portal's content is left in the head.                       *)
C11_HeadTeardown ==
    /\ childNodes["head"] = <<>>
    /\ \A id \in DOMAIN headRoots :
          LET r == headRoots[id]
          IN /\ r.inHead <=> ~r.clean
             /\ r.disposed <=> r.clean
             /\ ~r.clean <=> CleanRegistered(id)
             /\ ~r.clean => id = Len(headRoots)
    /\ (Settled /\ mount(pProps) = "head") =>
          /\ headRoots # <<>>
          /\ headRoots[Len(headRoots)].inHead
          /\ AttachedContainers = {}
          /\ \A i \in DOMAIN pLog :
                pLog[i].op \notin {"appendChild", "attachShadow"}
          /\ pLog[Len(pLog)] = DomCall("insert", "head", Len(headRoots))
    /\ portal = "disposed" =>
          \A id \in DOMAIN headRoots :
              /\ headRoots[id].clean
              /\ ~headRoots[id].inHead
              /\ headRoots[id].disposed

C11_Witness ==
    /\ portal = "disposed"
    /\ containers = <<>>
    /\ Len(headRoots) = 1
    /\ headRoots[1].clean
    /\ ~headRoots[1].inHead
    /\ headRoots[1].disposed

C13_HostFollowsMarker ==
    \A id \in DOMAIN containers :
        /\ containers[id].host.kind = "getter"
        /\ ReadHost(containers[id], markerParent) = markerParent

C13_Witness ==
    /\ Len(containers) = 2
    /\ markerParent = "aside"
    /\ ReadHost(containers[1], markerParent) = "aside"
    /\ ReadHost(containers[2], markerParent) = "aside"

(* C18: over changes of props.mount and teardown, at most one container of *)
(* the Portal is attached at any moment; in a run the previous container   *)
(* is removed before the new one is appended; a removal is applied to the  *)
(* target the container was appended to; after teardown no container of    *)
(* the Portal is attached anywhere.                                        *)
C18_OneContainerAttached ==
    /\ Cardinality(AttachedContainers) <= 1
    /\ "removeChild" \notin pThrew
    /\ \A i \in DOMAIN pLog :
          pLog[i].op = "removeChild" =>
              /\ pLog[i].id \in DOMAIN containers
              /\ pLog[i].el = containers[pLog[i].id].target
              /\ pLog[i].id \notin AttachedContainers
              /\ \A j \in DOMAIN pLog :
                    pLog[j].op \in {"appendChild", "attachShadow"} =>
                        i < j /\ pLog[i].id < pLog[j].id
    /\ Cardinality({i \in DOMAIN pLog : pLog[i].op = "removeChild"}) <= 1
    /\ Cardinality({i \in DOMAIN pLog : pLog[i].op = "appendChild"}) <= 1
    /\ portal = "disposed" => AttachedContainers = {}

C18_Witness ==
    /\ Settled
    /\ Len(containers) = 3
    /\ pLog = <<DomCall("removeChild", "nodeA", 2),
                DomCall("appendChild", "body", 3)>>
    /\ containers[1].target = "body"
    /\ AttachedContainers = {3}

-----------------------------------------------------------------------------
(* Vocabulary of the properties of createDynamic and Dynamic *)

\* the props of Dynamic without `component`
ExpectedOthers == [k \in DOMAIN dProps \ {"component"} |-> dProps[k]]

\* the last run of the rendering memo
LastRender == dHistory[Len(dHistory)]

\* a step in which the rendering memo runs
Rendered == Len(dHistory') = Len(dHistory) + 1

\* a step that writes something a component reads, and not the selector
ComponentSourceWritten ==
    /\ dEvals' = dEvals
    /\ dSignal' # dSignal \/ dProps' # dProps

(* C14: when the selector yields a function, the result is that function   *)
(* applied to the supplied props, invoked in a non-tracking scope, so that  *)
(* writing what the component read never invokes it again; when it yields   *)
(* undefined, or any value that is neither a function nor a string, the     *)
(* result is undefined and no element is created.                           *)
C14_FunctionAndUndefined ==
    /\ [](\A i \in DOMAIN dHistory :
             LET e == dHistory[i]
             IN /\ TypeOf(e.value) = "function" =>
                      /\ e.kind = "component"
                      /\ DOMAIN e.props = DOMAIN ExpectedOthers
                      /\ e.reads = {}
                      /\ ~e.created /\ ~e.adopted
                /\ TypeOf(e.value) \notin {"function", "string"} =>
                      /\ e.kind = "undefined"
                      /\ e.el = NoElement
                      /\ ~e.created /\ ~e.adopted)
    /\ [][/\ ComponentSourceWritten => dHistory' = dHistory
          /\ (Rendered /\ TypeOf(dCached') = "function") =>
                 dHistory'[Len(dHistory')].props =
                     [k \in DOMAIN dProps' \ {"component"} |-> dProps'[k]]]_vars

C14_Witness ==
    /\ dSignal
    /\ dEvals = 2
    /\ Len(dHistory) = 2
    /\ dHistory[1].value = JSNum(42)
    /\ dHistory[1].kind = "undefined"
    /\ dHistory[2].value = JSFunc("CompA")
    /\ dHistory[2].kind = "component"
    /\ dHistory[2].props = ExpectedOthers
    /\ "id" \in DOMAIN dProps
    /\ dProps["id"] = JSStr("b")

(* C15: when the selector yields a string, outside hydration a new element  *)
(* with that tag is created, in the SVG namespace exactly when the tag is   *)
(* in SVGElements, and the props are spread onto it; while a hydration      *)
(* context is active no element is created: the next server-rendered        *)
(* element is adopted and receives the spread props.                        *)
C15_StringSelector ==
    \A i \in DOMAIN dHistory :
        LET e == dHistory[i]
        IN TypeOf(e.value) = "string" =>
              /\ e.kind = "element"
              /\ DOMAIN e.spread = DOMAIN ExpectedOthers
              /\ e.isSvg <=> e.value.s \in SVGElements
              /\ IF e.context
                 THEN /\ ~e.created
                      /\ e.adopted
                      /\ e.el = getNextElement
                 ELSE /\ e.created
                      /\ ~e.adopted
                      /\ e.el.tag = e.value.s
                      /\ e.el.ns = SVG_NAMESPACE <=> e.value.s \in SVGElements
                      /\ e.el.ns = "html" <=> e.value.s \notin SVGElements

C15_Witness ==
    /\ Len(dHistory) = 3
    /\ dHistory[1].value = JSStr("div")
    /\ dHistory[1].adopted
    /\ dHistory[2].created
    /\ dHistory[2].el.tag = "circle"
    /\ dHistory[2].el.ns = SVG_NAMESPACE
    /\ dHistory[3].created
    /\ dHistory[3].el = [tag |-> "div", ns |-> "html", is |-> "my-element"]
    /\ DOMAIN dHistory[3].spread = {"id", "is"}

(* C16: the rendering memo runs again exactly when the memoized value of    *)
(* the selector changes: an evaluation that yields the value it had causes  *)
(* no component invocation and no element creation, and each change causes  *)
(* exactly one run, with the new value.                                     *)
C16_RerenderOnChange ==
    /\ [](dCreated => /\ dHistory # <<>>
                      /\ LastRender.value = dCached
                      /\ Len(dHistory) <= dEvals)
    /\ [][dCreated =>
            /\ dCached' = dCached => dHistory' = dHistory
            /\ dCached' # dCached =>
                  /\ Rendered
                  /\ SubSeq(dHistory', 1, Len(dHistory)) = dHistory
                  /\ dHistory'[Len(dHistory')].value = dCached']_vars

C16_Witness ==
    /\ dEvals = 3
    /\ Len(dHistory) = 2
    /\ dHistory[1].value = JSFunc("CompA")
    /\ dHistory[2].value = JSFunc("CompB")
    /\ dCached = JSFunc("CompB")

(* C19: what Dynamic hands to the rendered component, or spreads onto the   *)
(* created element, is all of its props except `component`; `component` is  *)
(* never passed down or set as an attribute; the selector given to          *)
(* createDynamic reads the current value of props.component.                *)
C19_ComponentNotPassed ==
    /\ [](/\ dCreated => dCached = dProps["component"]
          /\ \A i \in DOMAIN dHistory :
                LET e == dHistory[i]
                IN /\ "component" \notin DOMAIN e.props
                   /\ "component" \notin DOMAIN e.spread
                   /\ e.kind = "component" =>
                         DOMAIN e.props = DOMAIN dProps \ {"component"}
                   /\ e.kind = "element" =>
                         DOMAIN e.spread = DOMAIN dProps \ {"component"})
    /\ [][(Rendered \/ (dCreated' /\ ~dCreated)) =>
            LET e == dHistory'[Len(dHistory')]
                others == [k \in DOMAIN dProps' \ {"component"} |-> dProps'[k]]
            IN /\ e.value = dProps'["component"]
               /\ e.kind = "component" => e.props = others
               /\ e.kind = "element" => e.spread = others]_vars

C19_Witness ==
    /\ Len(dHistory) = 2
    /\ DOMAIN dProps = {"component", "id", "is"}
    /\ dHistory[1].kind = "component"
    /\ DOMAIN dHistory[1].props = {"id", "is"}
    /\ dHistory[2].kind = "element"
    /\ dHistory[2].spread = ExpectedOthers
    /\ dCached = JSStr("div")

=============================================================================
